---- MODULE Spec2Model ----
(***************************************************************************)
(* Model of twitchcore/types/coretypes.h.                                  *)
(*                                                                         *)
(* The header has no run-time code of its own: what it does, it does to    *)
(* the translation unit that includes it.  The model is therefore the      *)
(* translation of one client translation unit:                             *)
(*   - the preprocessor walks the header directive by directive and builds *)
(*     the macro table and the typedef table (lines 9 .. 27);              *)
(*   - the client then uses what the header declared: it declares a symbol *)
(*     with TTVSDK_API, writes UNUSED(arg) statements, computes with uint  *)
(*     variables and stores bytes in a utf8char.                           *)
(* The client function is                                                  *)
(*     void f(uint a, uint b, uint i) { utf8char c; ... }                  *)
(***************************************************************************)
EXTENDS Integers, Sequences, FiniteSets, TLC

VARIABLES
    TTV_PLATFORM_MAC,   \* build configuration: is the macro defined, and as which integer
    charSigned,         \* target: is plain char a signed type
    pc,                 \* header line the preprocessor is at ("L14"), or "tu" (in the client)
    taken,              \* has a group of the #if on line 14 been taken
    once,               \* #pragma once seen for this header
    includes,           \* number of #include "coretypes.h" seen
    macros,             \* macro table: name -> [defined, params, body]
    ndefs,              \* name -> number of #define directives executed for it
    typedefs,           \* typedef table: alias -> underlying type name, or "none"
    decl,               \* tokens of the client's declaration `TTVSDK_API void g();`
    arg,                \* argument tokens of the last UNUSED(arg) written
    semi,               \* was that use written in call form, UNUSED(arg);
    stmts,              \* statements the use was translated to
    diag,               \* "none", "ok" (compiled), "error" (ill-formed), "ran"
    mem,                \* values of a, b, i (uint) and c (utf8char)
    stored,             \* the byte last stored in c, -1 before the first store
    steps               \* number of client statements so far

vars == <<TTV_PLATFORM_MAC, charSigned, pc, taken, once, includes, macros, ndefs,
          typedefs, decl, arg, semi, stmts, diag, mem, stored, steps>>

(***************************************************************************)
(* Bounds of the model.                                                    *)
(***************************************************************************)
\* number of client statements explored after the header
MaxSteps == 2
\* number of times the client includes the header
MaxIncludes == 2
\* width of unsigned int of the target: the narrowest the language permits;
\* wider targets behave the same modulo 2^w
UIntBits == 16

\* bits of a char on the supported targets
CharBits == 8

Pow2(n) == 2 ^ n

(***************************************************************************)
(* The text of the header.                                                 *)
(***************************************************************************)
\* the configurations of TTV_PLATFORM_MAC: not defined, or -DTTV_PLATFORM_MAC=n
NotDefined == [defined |-> FALSE, value |-> 0]
DefinedAs(n) == [defined |-> TRUE, value |-> n]
PlatformValues == {NotDefined} \cup {DefinedAs(n) : n \in {0 - 1, 0, 1, 2}}

\* line 14: #if TTV_PLATFORM_MAC.  In a #if an identifier that is not a
\* macro evaluates to 0; the controlling value is tested against zero.
PlatformSelectedIfdef(cfg) == cfg.defined
PlatformSelectedEqOne(cfg) == (IF cfg.defined THEN cfg.value ELSE 0) = 1
PlatformSelected(cfg) == (IF cfg.defined THEN cfg.value ELSE 0) # 0

\* line 15: the replacement list of TTVSDK_API on the designated platform
TTVSDK_API_other_swapped == <<"__attribute__", "(", "(", "visibility", "(", "\"default\"", ")", ")", ")">>
TTVSDK_API_mac == <<"__attribute__", "(", "(", "visibility", "(", "\"default\"", ")", ")", ")">>

\* line 17: the replacement list of TTVSDK_API elsewhere
TTVSDK_API_other == <<>>

\* line 23: typedef char utf8char;
utf8char_swapped == "unsigned int"
utf8char_underlying == "char"

\* line 24: typedef unsigned int uint;
uint_signed == "int"
uint_narrow == "unsigned char"
uint_underlying == "unsigned int"

\* line 27: #define UNUSED(x) (void)x;
UNUSED_params == <<"x">>
UNUSED_body_noterm == <<"(", "void", ")", "x">>
UNUSED_body_zero == <<"(", "void", ")", "(", "x", "=", "0", ")", ";">>
UNUSED_body == <<"(", "void", ")", "x", ";">>

MacroNames == {"TTVSDK_API", "UNUSED"}
Aliases == {"utf8char", "uint"}
Undefined == [defined |-> FALSE, params |-> <<>>, body |-> <<>>]

\* the effect of a #define directive on the macro table
Define(tbl, name, params, body) ==
    [tbl EXCEPT ![name] = [defined |-> TRUE, params |-> params, body |-> body]]

(***************************************************************************)
(* Preprocessing of the header, one action per directive.                  *)
(***************************************************************************)
ClientVars == <<decl, arg, semi, stmts, diag, mem, stored, steps>>
TargetVars == <<TTV_PLATFORM_MAC, charSigned>>

\* #include "coretypes.h" in the client; line 9 makes every inclusion after
\* the first one a no-op
Include ==
    /\ pc = "tu"
    /\ includes < MaxIncludes
    /\ includes' = includes + 1
    /\ pc' = IF once THEN "tu" ELSE "L9"
    /\ UNCHANGED <<taken, once, macros, ndefs, typedefs>>
    /\ UNCHANGED ClientVars
    /\ UNCHANGED TargetVars

\* line 9: #pragma once  (lines 11, 12 include system headers)
PragmaOnce ==
    /\ pc = "L9"
    /\ once' = TRUE
    /\ pc' = "L14"
    /\ UNCHANGED <<taken, includes, macros, ndefs, typedefs>>
    /\ UNCHANGED ClientVars
    /\ UNCHANGED TargetVars

\* line 14: #if TTV_PLATFORM_MAC
IfPlatformMac ==
    /\ pc = "L14"
    /\ taken' = PlatformSelected(TTV_PLATFORM_MAC)
    /\ pc' = IF PlatformSelected(TTV_PLATFORM_MAC) THEN "L15" ELSE "L16"
    /\ UNCHANGED <<once, includes, macros, ndefs, typedefs>>
    /\ UNCHANGED ClientVars
    /\ UNCHANGED TargetVars

\* line 15: # define TTVSDK_API __attribute__((visibility("default")))
DefineApiMac ==
    /\ pc = "L15"
    /\ macros' = Define(macros, "TTVSDK_API", <<>>, TTVSDK_API_mac)
    /\ ndefs' = [ndefs EXCEPT !["TTVSDK_API"] = @ + 1]
    /\ pc' = "L16"
    /\ UNCHANGED <<taken, once, includes, typedefs>>
    /\ UNCHANGED ClientVars
    /\ UNCHANGED TargetVars

\* line 16: #else; its group is skipped when the #if group was taken
ElseBranch ==
    /\ pc = "L16"
    /\ taken' = TRUE
    /\ pc' = IF taken THEN "L18" ELSE "L17"
    /\ UNCHANGED <<once, includes, macros, ndefs, typedefs>>
    /\ UNCHANGED ClientVars
    /\ UNCHANGED TargetVars

\* line 17: # define TTVSDK_API
DefineApiOther ==
    /\ pc = "L17"
    /\ macros' = Define(macros, "TTVSDK_API", <<>>, TTVSDK_API_other)
    /\ ndefs' = [ndefs EXCEPT !["TTVSDK_API"] = @ + 1]
    /\ pc' = "L18"
    /\ UNCHANGED <<taken, once, includes, typedefs>>
    /\ UNCHANGED ClientVars
    /\ UNCHANGED TargetVars

\* line 18: #endif
Endif ==
    /\ pc = "L18"
    /\ taken' = FALSE
    /\ pc' = "L23"
    /\ UNCHANGED <<once, includes, macros, ndefs, typedefs>>
    /\ UNCHANGED ClientVars
    /\ UNCHANGED TargetVars

\* line 23: typedef char utf8char;
TypedefUtf8char ==
    /\ pc = "L23"
    /\ typedefs' = [typedefs EXCEPT !["utf8char"] = utf8char_underlying]
    /\ pc' = "L24"
    /\ UNCHANGED <<taken, once, includes, macros, ndefs>>
    /\ UNCHANGED ClientVars
    /\ UNCHANGED TargetVars

\* line 24: typedef unsigned int uint;
TypedefUint ==
    /\ pc = "L24"
    /\ typedefs' = [typedefs EXCEPT !["uint"] = uint_underlying]
    /\ pc' = "L27"
    /\ UNCHANGED <<taken, once, includes, macros, ndefs>>
    /\ UNCHANGED ClientVars
    /\ UNCHANGED TargetVars

\* line 27: #define UNUSED(x) (void)x;   and the end of the header
DefineUnused ==
    /\ pc = "L27"
    /\ macros' = Define(macros, "UNUSED", UNUSED_params, UNUSED_body)
    /\ ndefs' = [ndefs EXCEPT !["UNUSED"] = @ + 1]
    /\ pc' = "tu"
    /\ UNCHANGED <<taken, once, includes, typedefs>>
    /\ UNCHANGED ClientVars
    /\ UNCHANGED TargetVars

\* the header has been translated and the client is being translated
HeaderDone == pc = "tu" /\ once

(***************************************************************************)
(* The types the header names.                                             *)
(***************************************************************************)
BuiltinTypes == {"char", "unsigned char", "int", "unsigned int"}

\* the type an alias stands for (a typedef introduces a name, not a type)
Resolve(tbl, name) == IF name \in Aliases THEN tbl[name] ELSE name

Bits(T) == IF T \in {"char", "unsigned char"} THEN CharBits ELSE UIntBits
IsSigned(T, cs) == IF T = "char" THEN cs ELSE T = "int"
Repr(T, cs) == [bits |-> Bits(T), signed |-> IsSigned(T, cs)]
MinVal(T, cs) == IF IsSigned(T, cs) THEN 0 - Pow2(Bits(T) - 1) ELSE 0
MaxVal(T, cs) == IF IsSigned(T, cs) THEN Pow2(Bits(T) - 1) - 1 ELSE Pow2(Bits(T)) - 1
Values(T, cs) == MinVal(T, cs) .. MaxVal(T, cs)

\* storing the 8-bit pattern b in an object of type T, and reading the low
\* 8 bits of the object back
ByteToChar(b, T, cs) ==
    IF IsSigned(T, cs) /\ Bits(T) = CharBits /\ b >= Pow2(CharBits - 1)
    THEN b - Pow2(CharBits) ELSE b
CharToByte(v) == v % Pow2(CharBits)

(***************************************************************************)
(* Arithmetic of the type uint stands for.                                 *)
(***************************************************************************)
RECURSIVE MulMod(_, _, _)
\* (x * y) % m without an intermediate product wider than 3 * m
MulMod(x, y, m) ==
    IF x = 0 THEN 0
    ELSE ((x % 2) * (y % m) + 2 * MulMod(x \div 2, y, m)) % m

Abs(n) == IF n < 0 THEN 0 - n ELSE n

ArithOps == {"+", "-", "*"}

\* does the exact result of x op y lie outside the signed type T
SignedOverflow(op, x, y, T, cs) ==
    IF op = "*"
    THEN /\ x # 0
         /\ y # 0
         /\ Abs(y) > (MaxVal(T, cs) + 1) \div Abs(x)
    ELSE LET r == IF op = "+" THEN x + y ELSE x - y
         IN  r < MinVal(T, cs) \/ r > MaxVal(T, cs)

\* the results x op y can have in type T: unsigned arithmetic is modulo
\* 2^w; signed overflow is undefined, any value of the type may result
ArithResults(op, x, y, T, cs) ==
    IF ~IsSigned(T, cs)
    THEN LET m == Pow2(Bits(T))
         IN  IF op = "+" THEN {(x + y) % m}
             ELSE IF op = "-" THEN {(x - y) % m}
             ELSE {MulMod(x % m, y % m, m)}
    ELSE IF SignedOverflow(op, x, y, T, cs) THEN Values(T, cs)
         ELSE IF op = "+" THEN {x + y}
         ELSE IF op = "-" THEN {x - y}
         ELSE {x * y}

(***************************************************************************)
(* Macro replacement.                                                      *)
(***************************************************************************)
RECURSIVE Substitute(_, _, _)
\* the replacement list with every occurrence of the parameter replaced by
\* the tokens of the argument
Substitute(body, param, a) ==
    IF body = <<>> THEN <<>>
    ELSE (IF Head(body) = param THEN a ELSE <<Head(body)>>)
         \o Substitute(Tail(body), param, a)

\* expansion of an object-like macro name
ExpandObject(tbl, name) ==
    IF tbl[name].defined THEN tbl[name].body ELSE <<name>>

\* expansion of the invocation name(a) of a one-parameter function-like macro
ExpandCall(tbl, name, a) ==
    IF tbl[name].defined /\ Len(tbl[name].params) = 1
    THEN Substitute(tbl[name].body, tbl[name].params[1], a)
    ELSE <<name, "(">> \o a \o <<")">>

(***************************************************************************)
(* The statements an expansion is parsed to.                               *)
(*   statement  ::= [expression] ";"                                       *)
(*   expression ::= additive [ "=" expression ]                            *)
(*   additive   ::= cast { "+" cast }                                      *)
(*   cast       ::= "(" "void" ")" cast | "-" cast | postfix               *)
(*   postfix    ::= primary { "++" }                                       *)
(*   primary    ::= identifier | literal | "(" expression ")"              *)
(***************************************************************************)
Identifiers == {"a", "b", "i"}
Literals == {"0", "1"}

Node(k, v, args) == [k |-> k, v |-> v, args |-> args]
Fail == [ok |-> FALSE, ast |-> Node("error", "", <<>>), pos |-> 0]
Ok(ast, pos) == [ok |-> TRUE, ast |-> ast, pos |-> pos]
Tok(ts, p) == IF p >= 1 /\ p <= Len(ts) THEN ts[p] ELSE "<eof>"

RECURSIVE ParseExpr(_, _), ParseAdditiveTail(_, _), ParseCast(_, _),
          ParsePostfixTail(_, _), ParsePrimary(_, _)

ParsePrimary(ts, p) ==
    IF Tok(ts, p) \in Identifiers THEN Ok(Node("id", ts[p], <<>>), p + 1)
    ELSE IF Tok(ts, p) \in Literals THEN Ok(Node("lit", ts[p], <<>>), p + 1)
    ELSE IF Tok(ts, p) = "("
         THEN LET r == ParseExpr(ts, p + 1)
              IN  IF r.ok /\ Tok(ts, r.pos) = ")"
                  THEN Ok(Node("paren", "", <<r.ast>>), r.pos + 1)
                  ELSE Fail
    ELSE Fail

ParsePostfixTail(ts, r) ==
    IF r.ok /\ Tok(ts, r.pos) = "++"
    THEN ParsePostfixTail(ts, Ok(Node("postinc", "", <<r.ast>>), r.pos + 1))
    ELSE r

ParseCast(ts, p) ==
    IF Tok(ts, p) = "(" /\ Tok(ts, p + 1) = "void" /\ Tok(ts, p + 2) = ")"
    THEN LET r == ParseCast(ts, p + 3)
         IN  IF r.ok THEN Ok(Node("cast", "void", <<r.ast>>), r.pos) ELSE Fail
    ELSE IF Tok(ts, p) = "-"
         THEN LET r == ParseCast(ts, p + 1)
              IN  IF r.ok THEN Ok(Node("neg", "", <<r.ast>>), r.pos) ELSE Fail
    ELSE ParsePostfixTail(ts, ParsePrimary(ts, p))

ParseAdditiveTail(ts, l) ==
    IF l.ok /\ Tok(ts, l.pos) = "+"
    THEN LET r == ParseCast(ts, l.pos + 1)
         IN  IF r.ok
             THEN ParseAdditiveTail(ts, Ok(Node("add", "", <<l.ast, r.ast>>), r.pos))
             ELSE Fail
    ELSE l

ParseExpr(ts, p) ==
    LET l == ParseAdditiveTail(ts, ParseCast(ts, p))
    IN  IF l.ok /\ Tok(ts, l.pos) = "="
        THEN LET r == ParseExpr(ts, l.pos + 1)
             IN  IF r.ok THEN Ok(Node("assign", "", <<l.ast, r.ast>>), r.pos)
                 ELSE Fail
        ELSE l

\* the whole token sequence as one expression
ParseWhole(ts) ==
    LET r == ParseExpr(ts, 1)
    IN  IF r.ok /\ r.pos = Len(ts) + 1 THEN r.ast ELSE Node("error", "", <<>>)

RECURSIVE TypeOf(_)
IsLvalue(e) == e.k = "id" \/ (e.k = "paren" /\ e.args[1].k = "id")
\* "arith" for a value of arithmetic type, "void", or "error" when ill-formed
TypeOf(e) ==
    IF e.k \in {"id", "lit"} THEN "arith"
    ELSE IF e.k = "paren" THEN TypeOf(e.args[1])
    ELSE IF e.k = "cast"
         THEN IF TypeOf(e.args[1]) = "error" THEN "error" ELSE "void"
    ELSE IF e.k = "neg"
         THEN IF TypeOf(e.args[1]) = "arith" THEN "arith" ELSE "error"
    ELSE IF e.k = "postinc"
         THEN IF IsLvalue(e.args[1]) THEN "arith" ELSE "error"
    ELSE IF e.k = "add"
         THEN IF TypeOf(e.args[1]) = "arith" /\ TypeOf(e.args[2]) = "arith"
              THEN "arith" ELSE "error"
    ELSE IF e.k = "assign"
         THEN IF IsLvalue(e.args[1]) /\ TypeOf(e.args[2]) = "arith"
              THEN "arith" ELSE "error"
    ELSE "error"

RECURSIVE SplitStatements(_, _, _)
\* the token sequences of the complete statements of ts (each without its
\* terminator) and the tokens left over without a terminator
SplitStatements(ts, cur, done) ==
    IF ts = <<>> THEN [done |-> done, rest |-> cur]
    ELSE IF Head(ts) = ";" THEN SplitStatements(Tail(ts), <<>>, Append(done, cur))
    ELSE SplitStatements(Tail(ts), Append(cur, Head(ts)), done)

\* one statement: the empty statement, or an expression statement
Statement(ts) ==
    IF ts = <<>> THEN [tokens |-> ts, ast |-> Node("empty", "", <<>>), wf |-> TRUE]
    ELSE [tokens |-> ts, ast |-> ParseWhole(ts),
          wf |-> TypeOf(ParseWhole(ts)) # "error"]

\* the statements the tokens ts translate to; an unterminated rest is an
\* ill-formed statement
Translate(ts) ==
    LET sp == SplitStatements(ts, <<>>, <<>>)
        complete == [n \in 1 .. Len(sp.done) |-> Statement(sp.done[n])]
    IN  IF sp.rest = <<>> THEN complete
        ELSE Append(complete, [tokens |-> sp.rest, ast |-> Node("error", "", <<>>),
                               wf |-> FALSE])

(***************************************************************************)
(* Evaluation of an expression in the memory m of the client function.     *)
(***************************************************************************)
RECURSIVE Eval(_, _, _, _)
\* value, memory afterwards, and whether the evaluation was undefined
Eval(e, m, T, cs) ==
    IF e.k = "id" THEN [val |-> m[e.v], mem |-> m, ub |-> FALSE]
    ELSE IF e.k = "lit" THEN [val |-> IF e.v = "0" THEN 0 ELSE 1, mem |-> m, ub |-> FALSE]
    ELSE IF e.k \in {"paren", "cast"} THEN Eval(e.args[1], m, T, cs)
    ELSE IF e.k = "neg"
         THEN LET r == Eval(e.args[1], m, T, cs)
                  vs == ArithResults("-", 0, r.val, T, cs)
              IN  [val |-> CHOOSE v \in vs : TRUE, mem |-> r.mem,
                   ub |-> r.ub \/ Cardinality(vs) # 1]
    ELSE IF e.k = "postinc"
         THEN LET x == IF e.args[1].k = "id" THEN e.args[1].v ELSE e.args[1].args[1].v
                  vs == ArithResults("+", m[x], 1, T, cs)
              IN  [val |-> m[x],
                   mem |-> [m EXCEPT ![x] = CHOOSE v \in vs : TRUE],
                   ub |-> Cardinality(vs) # 1]
    ELSE IF e.k = "add"
         THEN LET l == Eval(e.args[1], m, T, cs)
                  r == Eval(e.args[2], l.mem, T, cs)
                  vs == ArithResults("+", l.val, r.val, T, cs)
              IN  [val |-> CHOOSE v \in vs : TRUE, mem |-> r.mem,
                   ub |-> l.ub \/ r.ub \/ Cardinality(vs) # 1]
    ELSE IF e.k = "assign"
         THEN LET r == Eval(e.args[2], m, T, cs)
                  x == IF e.args[1].k = "id" THEN e.args[1].v ELSE e.args[1].args[1].v
                  vs == ArithResults("+", r.val, 0, T, cs)
              IN  [val |-> CHOOSE v \in vs : TRUE,
                   mem |-> [r.mem EXCEPT ![x] = CHOOSE v \in vs : TRUE],
                   ub |-> r.ub]
    ELSE [val |-> 0, mem |-> m, ub |-> FALSE]

RECURSIVE Run(_, _, _, _)
\* the statements ss executed in order
Run(ss, m, T, cs) ==
    IF ss = <<>> THEN [mem |-> m, ub |-> FALSE]
    ELSE LET r == Eval(Head(ss).ast, m, T, cs)
             t == Run(Tail(ss), r.mem, T, cs)
         IN  [mem |-> t.mem, ub |-> r.ub \/ t.ub]

(***************************************************************************)
(* The client translation unit.                                            *)
(***************************************************************************)
\* the arguments the client passes to UNUSED
UnusedArgs == { <<"a">>, <<"i", "++">>, <<"-", "a">>, <<"a", "+", "b">>,
                <<"(", "a", "+", "b", ")">>, <<"a", "=", "b">>,
                <<"(", "a", "=", "b", ")">> }

\* the bytes the client stores: NUL, ASCII, the first continuation byte, a
\* lead byte that no character starts with, and two bytes that occur in no
\* UTF-8 text
TestBytes == {0, 65, 127, 128, 192, 254, 255}

UintType == Resolve(typedefs, "uint")
CharType == Resolve(typedefs, "utf8char")

\* the client declares   TTVSDK_API void g();
DeclareApi ==
    /\ HeaderDone
    /\ decl = <<>>
    /\ decl' = ExpandObject(macros, "TTVSDK_API") \o <<"void", "g", "(", ")", ";">>
    /\ UNCHANGED <<pc, taken, once, includes, macros, ndefs, typedefs>>
    /\ UNCHANGED <<arg, semi, stmts, diag, mem, stored, steps>>
    /\ UNCHANGED TargetVars

\* the client writes UNUSED(x) or UNUSED(x); and the compiler translates it
CompileUnused ==
    /\ HeaderDone
    /\ steps < MaxSteps
    /\ diag # "ok"
    /\ \E x \in UnusedArgs, s \in BOOLEAN :
          LET ts == ExpandCall(macros, "UNUSED", x) \o (IF s THEN <<";">> ELSE <<>>)
              ss == Translate(ts)
          IN  /\ arg' = x
              /\ semi' = s
              /\ stmts' = ss
              /\ diag' = IF \A n \in 1 .. Len(ss) : ss[n].wf THEN "ok" ELSE "error"
    /\ steps' = steps + 1
    /\ UNCHANGED <<pc, taken, once, includes, macros, ndefs, typedefs>>
    /\ UNCHANGED <<decl, mem, stored>>
    /\ UNCHANGED TargetVars

\* the translated statements are executed
ExecUnused ==
    /\ HeaderDone
    /\ diag = "ok"
    /\ LET r == Run(stmts, mem, UintType, charSigned)
       IN  IF r.ub
           THEN mem' \in [a : Values(UintType, charSigned), b : Values(UintType, charSigned),
                          i : Values(UintType, charSigned), c : {mem.c}]
           ELSE mem' = r.mem
    /\ diag' = "ran"
    /\ UNCHANGED <<pc, taken, once, includes, macros, ndefs, typedefs>>
    /\ UNCHANGED <<decl, arg, semi, stmts, stored, steps>>
    /\ UNCHANGED TargetVars

\* the client computes   dst = dst op src;   on its uint variables
UintArith ==
    /\ HeaderDone
    /\ steps < MaxSteps
    /\ diag # "ok"
    /\ \E dst \in {"a", "b"}, op \in ArithOps, src \in {"a", "b", "i"} :
          \E v \in ArithResults(op, mem[dst], mem[src], UintType, charSigned) :
              mem' = [mem EXCEPT ![dst] = v]
    /\ steps' = steps + 1
    /\ UNCHANGED <<pc, taken, once, includes, macros, ndefs, typedefs>>
    /\ UNCHANGED <<decl, arg, semi, stmts, diag, stored>>
    /\ UNCHANGED TargetVars

\* the client stores a byte, whatever its value, in its utf8char
StoreByte ==
    /\ HeaderDone
    /\ steps < MaxSteps
    /\ diag # "ok"
    /\ \E byte \in TestBytes :
          /\ mem' = [mem EXCEPT !.c = ByteToChar(byte, CharType, charSigned)]
          /\ stored' = byte
    /\ steps' = steps + 1
    /\ UNCHANGED <<pc, taken, once, includes, macros, ndefs, typedefs>>
    /\ UNCHANGED <<decl, arg, semi, stmts, diag>>
    /\ UNCHANGED TargetVars

(***************************************************************************)
(* The specification.                                                      *)
(***************************************************************************)
Init ==
    /\ TTV_PLATFORM_MAC \in PlatformValues
    /\ charSigned \in BOOLEAN
    /\ pc = "tu"
    /\ taken = FALSE
    /\ once = FALSE
    /\ includes = 0
    /\ macros = [n \in MacroNames |-> Undefined]
    /\ ndefs = [n \in MacroNames |-> 0]
    /\ typedefs = [n \in Aliases |-> "none"]
    /\ decl = <<>>
    /\ arg = <<>>
    /\ semi = FALSE
    /\ stmts = <<>>
    /\ diag = "none"
    /\ mem = [a |-> 1, b |-> Pow2(UIntBits) - 1, i |-> 0, c |-> 0]
    /\ stored = 0 - 1
    /\ steps = 0

Next ==
    \/ Include
    \/ PragmaOnce
    \/ IfPlatformMac
    \/ DefineApiMac
    \/ ElseBranch
    \/ DefineApiOther
    \/ Endif
    \/ TypedefUtf8char
    \/ TypedefUint
    \/ DefineUnused
    \/ DeclareApi
    \/ CompileUnused
    \/ ExecUnused
    \/ UintArith
    \/ StoreByte

Spec == Init /\ [][Next]_vars

(***************************************************************************)
(* Properties.                                                             *)
(***************************************************************************)
\* the configurations the properties speak of, stated on the configuration
\* itself
DesignatedPlatform == TTV_PLATFORM_MAC.defined /\ TTV_PLATFORM_MAC.value # 0
DefaultVisibilityAttribute ==
    <<"__attribute__", "(", "(", "visibility", "(", "\"default\"", ")", ")", ")">>
PlainDeclaration == <<"void", "g", "(", ")", ";">>

\* C1: when TTV_PLATFORM_MAC is undefined or evaluates to 0, TTVSDK_API is
\* defined by the header and expands to the empty token sequence, so a
\* declaration annotated with it is the plain declaration.
C1_OtherPlatformsExpandToNothing ==
    ~DesignatedPlatform =>
        /\ HeaderDone => macros["TTVSDK_API"].defined
        /\ macros["TTVSDK_API"].defined => ExpandObject(macros, "TTVSDK_API") = <<>>
        /\ decl # <<>> => decl = PlainDeclaration

C1_Witness ==
    /\ TTV_PLATFORM_MAC = DefinedAs(0)
    /\ decl = PlainDeclaration

\* C2: when TTV_PLATFORM_MAC evaluates to non-zero, TTVSDK_API is defined by
\* the header and expands to __attribute__((visibility("default"))) and to
\* nothing else.
C2_DesignatedPlatformExportsDefault ==
    DesignatedPlatform =>
        /\ HeaderDone => macros["TTVSDK_API"].defined
        /\ macros["TTVSDK_API"].defined =>
              ExpandObject(macros, "TTVSDK_API") = DefaultVisibilityAttribute
        /\ decl # <<>> => decl = DefaultVisibilityAttribute \o PlainDeclaration

C2_Witness ==
    /\ TTV_PLATFORM_MAC = DefinedAs(2)
    /\ decl = DefaultVisibilityAttribute \o PlainDeclaration

\* C3: for every argument expression, the translation of UNUSED(arg) is
\* well-formed and discards the value of the whole argument: its first
\* statement is the cast to void of the expression arg.
C3_UnusedDiscardsWholeArgument ==
    diag # "none" =>
        /\ stmts # <<>>
        /\ stmts[1].wf
        /\ stmts[1].ast = Node("cast", "void", <<ParseWhole(arg)>>)

\* a use of UNUSED has just been executed
ExecStep == diag = "ok" /\ diag' = "ran"
NoSideEffect(x) == \A n \in 1 .. Len(x) : x[n] \notin {"++", "="}

C5_AliasesHaveUnderlyingRepresentation ==
    HeaderDone =>
        /\ Repr(Resolve(typedefs, "utf8char"), charSigned) = Repr("char", charSigned)
        /\ Values(Resolve(typedefs, "utf8char"), charSigned) = Values("char", charSigned)
        /\ Repr(Resolve(typedefs, "uint"), charSigned) = Repr("unsigned int", charSigned)
        /\ Values(Resolve(typedefs, "uint"), charSigned) = Values("unsigned int", charSigned)

C5_Witness ==
    /\ HeaderDone
    /\ charSigned
    /\ mem.c < 0
    /\ mem.a = 0

\* C6: every uint value is in 0 .. 2^w - 1, also after any sequence of
\* arithmetic operations.
C6_UintInRange ==
    \A x \in {"a", "b", "i"} : mem[x] >= 0 /\ mem[x] <= Pow2(UIntBits) - 1

\* 1 - (2^w - 1) - (2^w - 1) has wrapped twice
C6_Witness ==
    /\ steps = 2
    /\ mem.a = 3
    /\ mem.b = Pow2(UIntBits) - 1

\* C7: a utf8char is one 8-bit unit and takes every byte value 0x00..0xFF,
\* valid UTF-8 or not, giving back the same 8-bit pattern.
C7_Utf8charHoldsEveryByte ==
    HeaderDone =>
        /\ Bits(CharType) = 8
        /\ \A byte \in 0 .. 255 :
              /\ ByteToChar(byte, CharType, charSigned) \in Values(CharType, charSigned)
              /\ CharToByte(ByteToChar(byte, CharType, charSigned)) = byte
        /\ stored >= 0 =>
              /\ mem.c \in Values(CharType, charSigned)
              /\ CharToByte(mem.c) = stored

C7_Witness ==
    /\ stored = 255
    /\ charSigned
    /\ mem.c = 0 - 1

\* C8: for every configuration, TTVSDK_API is defined exactly once, as one
\* of the two expansions, the one the value of TTV_PLATFORM_MAC determines;
\* defined as 0 selects the empty one.
C8_ExportSelectionTotalDeterministic ==
    /\ ndefs["TTVSDK_API"] <= 1
    /\ HeaderDone =>
          /\ ndefs["TTVSDK_API"] = 1
          /\ macros["TTVSDK_API"].defined
          /\ macros["TTVSDK_API"].body \in {DefaultVisibilityAttribute, <<>>}
          /\ macros["TTVSDK_API"].body =
                (IF DesignatedPlatform THEN DefaultVisibilityAttribute ELSE <<>>)
          /\ TTV_PLATFORM_MAC = DefinedAs(0) => macros["TTVSDK_API"].body = <<>>

C8_Witness ==
    /\ HeaderDone
    /\ TTV_PLATFORM_MAC = DefinedAs(0)
    /\ includes = 2
    /\ ndefs["TTVSDK_API"] = 1

\* C9: the expansion of UNUSED(x) ends with its own terminator and is one
\* complete statement that begins with the cast to void; the call form
\* UNUSED(x); is two statements, that one and an empty statement.
C9_UnusedCarriesItsTerminator ==
    diag # "none" =>
        LET exp == ExpandCall(macros, "UNUSED", arg)
        IN  /\ exp # <<>>
            /\ exp[Len(exp)] = ";"
            /\ Len(Translate(exp)) = 1
            /\ SubSeq(Translate(exp)[1].tokens, 1, 3) = <<"(", "void", ")">>
            /\ Len(stmts) = IF semi THEN 2 ELSE 1
            /\ stmts[1] = Translate(exp)[1]
            /\ semi => stmts[2].ast.k = "empty"

C9_Witness ==
    /\ diag = "ran"
    /\ semi
    /\ arg = <<"a">>
    /\ Len(stmts) = 2

====
